---------------------------- MODULE Spec2Model ----------------------------
(***************************************************************************)
(* SherlockOS - HunyuanWorld-Mirror reconstruction service                 *)
(* (src/modal/sherlock_mirror.py).                                         *)
(*                                                                         *)
(* Three specifications share this module:                                 *)
(*   ExtractSpec  - _extract_tensor applied to bounded prediction results  *)
(*                  and alias lists;                                       *)
(*   AdapterSpec  - one reconstruction's numeric stages on concrete        *)
(*                  arrays: parameter extraction, write_gaussian_ply, and  *)
(*                  the response's point cloud;                            *)
(*   Spec         - the reconstruct / download_ply endpoints as            *)
(*                  interleaved requests over /tmp and the PLY volume.     *)
(*                                                                         *)
(* float32 values are carried as fixed-point integers in thousandths       *)
(* (0.8 is 800, -5.0 is -5000, 1.0 is 1000).                               *)
(***************************************************************************)
EXTENDS Integers, Sequences, FiniteSets, TLC

\* ------------------------------------------------------------------------
\* Bounds of the model
\* ------------------------------------------------------------------------

\* Longest alias list handed to _extract_tensor in ExtractSpec.
MaxAliases == 4

\* Largest number of points N a prediction carries.
MaxN == 3

\* Widest spherical-harmonic coefficient row (W) a prediction carries.
MaxW == 6

\* Highest source frame rate of the sampler's videos, in hundredths of a
\* frame per second.
MaxFps == 350

\* Most frames of a short video.
MaxT == 8

\* Highest whole frame rate of the videos that reach the frame cap.
MaxLongStride == 2

\* Frames a long video has beyond those the cap lets through.
MaxOver == 2

\* ------------------------------------------------------------------------
\* Program constants
\* ------------------------------------------------------------------------

\* MAX_POINTS_IN_RESPONSE = 50_000, scaled down so that N can exceed it.
MAX_POINTS_IN_RESPONSE == 2

\* max_frames = 100
MAX_FRAMES == 100

\* the default of `cap.get(cv2.CAP_PROP_FPS) or 30.0`, in hundredths
DEFAULT_FPS == 3000

\* np.ones((n_points, 1)) * 0.8
OPACITY_DEFAULT == 800

\* np.full((n_points, 3), -5.0)
SCALE_DEFAULT == -5000

\* SH_C0 = 0.28209479177387814, in millionths
SH_C0 == 282095

\* ------------------------------------------------------------------------
\* Values
\* ------------------------------------------------------------------------

\* Python's None.
None == [none |-> TRUE]

\* A str where None is also possible.
Str(s) == [str |-> s]

\* A tensor / ndarray before reshaping: its elements (thousandths) in
\* row-major order.
Tensor(data) == [data |-> data]

\* A prediction result: a dict (kind "dict") or an attribute bag (kind
\* "object") exposing the keys / attributes in DOMAIN fields.
Prediction(kind, fields) == [kind |-> kind, fields |-> fields]

\* ------------------------------------------------------------------------
\* _extract_tensor
\* ------------------------------------------------------------------------

\* `k in predictions`
DictHas(predictions, k) == k \in DOMAIN predictions.fields

\* `hasattr(predictions, k)`
HasAttr(predictions, k) == k \in DOMAIN predictions.fields

\* the for-loop over candidate_keys from position i on, dict branch
RECURSIVE ScanDict(_, _, _)
ScanDict(predictions, candidate_keys, i) ==
    IF i > Len(candidate_keys) THEN None
    ELSE IF DictHas(predictions, candidate_keys[i])
         THEN predictions.fields[candidate_keys[i]]
         ELSE ScanDict(predictions, candidate_keys, i + 1)

\* the for-loop over candidate_keys from position i on, attribute branch
RECURSIVE ScanAttrs(_, _, _)
ScanAttrs(predictions, candidate_keys, i) ==
    IF i > Len(candidate_keys) THEN None
    ELSE IF HasAttr(predictions, candidate_keys[i])
         THEN predictions.fields[candidate_keys[i]]
         ELSE ScanAttrs(predictions, candidate_keys, i + 1)

\* A scan that lets the last present alias win.
RECURSIVE ScanLastWins(_, _, _)
ScanLastWins(predictions, candidate_keys, i) ==
    IF i < 1 THEN None
    ELSE IF candidate_keys[i] \in DOMAIN predictions.fields
         THEN predictions.fields[candidate_keys[i]]
         ELSE ScanLastWins(predictions, candidate_keys, i - 1)

_extract_tensor_last_wins(predictions, candidate_keys) ==
    ScanLastWins(predictions, candidate_keys, Len(candidate_keys))

_extract_tensor(predictions, candidate_keys) ==
    IF predictions.kind = "dict"
    THEN ScanDict(predictions, candidate_keys, 1)
    ELSE ScanAttrs(predictions, candidate_keys, 1)

\* ------------------------------------------------------------------------
\* Array helpers (numpy)
\* ------------------------------------------------------------------------

\* data.reshape(n, k): the n rows of k elements, row-major
Rows(data, n, k) == [i \in 1..n |-> [j \in 1..k |-> data[(i - 1) * k + j]]]

\* whether data.reshape(-1, k) succeeds
CanReshapeCols(data, k) == Len(data) % k = 0

\* whether data.reshape(n, -1) succeeds (n >= 1)
CanReshapeRows(data, n) == Len(data) > 0 /\ Len(data) % n = 0

\* whether data.reshape(n, k) succeeds
CanReshape(data, n, k) == Len(data) = n * k

\* a[:, :k]
FirstCols(a, k) == [i \in DOMAIN a |-> SubSeq(a[i], 1, k)]

\* np.tile(a, (1, 3))
Tile3(a) == [i \in DOMAIN a |-> a[i] \o a[i] \o a[i]]

\* row width of a 2-d array with at least one row
Width(a) == Len(a[1])

Clip(v, lo, hi) == IF v < lo THEN lo ELSE IF v > hi THEN hi ELSE v

RECURSIVE SumSeq(_)
SumSeq(s) == IF s = <<>> THEN 0 ELSE Head(s) + SumSeq(Tail(s))

MinOf(S) == CHOOSE x \in S : \A y \in S : x <= y
MaxOf(S) == CHOOSE x \in S : \A y \in S : x >= y

\* ------------------------------------------------------------------------
\* sh_dc_to_rgb
\* ------------------------------------------------------------------------

\* one element of np.clip(sh_dc * SH_C0 + 0.5, 0.0, 1.0)
DcToRgb(v) == Clip((v * SH_C0) \div 1000000 + 500, 0, 1000)

sh_dc_to_rgb(sh_dc) ==
    [i \in DOMAIN sh_dc |-> [c \in DOMAIN sh_dc[i] |-> DcToRgb(sh_dc[i][c])]]

\* ------------------------------------------------------------------------
\* reconstruct, step 4: extract Gaussian Splatting parameters
\* ------------------------------------------------------------------------

POSITION_KEYS == <<"pts3d", "means3D", "means", "xyz">>
OPACITY_KEYS  == <<"conf", "confidence", "opacity", "opacities">>
SCALE_KEYS    == <<"scales", "scaling", "log_scales">>
ROTATION_KEYS == <<"quats", "rotations", "rotation", "rots">>
SH_KEYS       == <<"sh", "shs", "features_dc", "sh_coeffs", "colors_precomp">>

\* _error_response(message, status): raises HTTPException(status, message)
ErrorResponse(status, detail) == [ok |-> FALSE, status |-> status, detail |-> detail]

\* np.ones((n_points, 1)) * 0.8
DefaultOpacity(n_points) == [i \in 1..n_points |-> <<OPACITY_DEFAULT>>]

\* np.full((n_points, 3), -5.0)
DefaultScales(n_points) ==
    [i \in 1..n_points |-> <<SCALE_DEFAULT, SCALE_DEFAULT, SCALE_DEFAULT>>]

\* An identity quaternion in (x, y, z, w) order.
DefaultQuatsXYZW(n_points) == [i \in 1..n_points |-> <<0, 0, 0, 1000>>]

\* np.tile(np.array([1, 0, 0, 0]), (n_points, 1))
DefaultQuats(n_points) == [i \in 1..n_points |-> <<1000, 0, 0, 0>>]

\* np.zeros((n_points, 3))
DefaultSh(n_points) == [i \in 1..n_points |-> <<0, 0, 0>>]

\* the columns the response colours are computed from
ShDc(sh_np) ==
    IF Width(sh_np) >= 3 THEN FirstCols(sh_np, 3) ELSE Tile3(FirstCols(sh_np, 1))

\* the body of the try block once pts3d is known to be present; any
\* reshape that raises is caught by `except Exception` (500)
CanonicalArrays(pts3d, conf, scales, quats, sh_coeffs) ==
    IF ~CanReshapeCols(pts3d.data, 3)
    THEN ErrorResponse(500, "Failed to extract Gaussian parameters")
    ELSE
    LET n_points == Len(pts3d.data) \div 3
        pts3d_np == Rows(pts3d.data, n_points, 3)
    IN
    IF conf # None /\ ~CanReshapeRows(conf.data, n_points)
    THEN ErrorResponse(500, "Failed to extract Gaussian parameters")
    ELSE IF scales # None /\ ~CanReshape(scales.data, n_points, 3)
    THEN ErrorResponse(500, "Failed to extract Gaussian parameters")
    ELSE IF quats # None /\ ~CanReshape(quats.data, n_points, 4)
    THEN ErrorResponse(500, "Failed to extract Gaussian parameters")
    ELSE IF sh_coeffs # None /\ ~CanReshapeRows(sh_coeffs.data, n_points)
    THEN ErrorResponse(500, "Failed to extract Gaussian parameters")
    ELSE
    LET opacity_np ==
            IF conf # None
            THEN FirstCols(Rows(conf.data, n_points, Len(conf.data) \div n_points), 1)
            ELSE DefaultOpacity(n_points)
        scales_np ==
            IF scales # None
            THEN Rows(scales.data, n_points, 3)
            ELSE DefaultScales(n_points)
        quats_np ==
            IF quats # None
            THEN Rows(quats.data, n_points, 4)
            ELSE DefaultQuats(n_points)
        sh_np ==
            IF sh_coeffs # None
            THEN Rows(sh_coeffs.data, n_points, Len(sh_coeffs.data) \div n_points)
            ELSE DefaultSh(n_points)
    IN  [ok |-> TRUE,
         pts3d_np |-> pts3d_np,
         n_points |-> n_points,
         opacity_np |-> opacity_np,
         scales_np |-> scales_np,
         quats_np |-> quats_np,
         sh_np |-> sh_np,
         colors_rgb |-> sh_dc_to_rgb(ShDc(sh_np))]

\* An extraction that gives absent positions a default, as the optional
\* fields have.
ExtractGaussianParametersLenient(predictions) ==
    LET found == _extract_tensor(predictions, POSITION_KEYS)
    IN  CanonicalArrays(
            IF found = None THEN Tensor(<<0, 0, 0>>) ELSE found,
            _extract_tensor(predictions, OPACITY_KEYS),
            _extract_tensor(predictions, SCALE_KEYS),
            _extract_tensor(predictions, ROTATION_KEYS),
            _extract_tensor(predictions, SH_KEYS))

\* the whole try block of step 4: the canonical arrays, or the error the
\* request ends with
ExtractGaussianParameters(predictions) ==
    LET pts3d     == _extract_tensor(predictions, POSITION_KEYS)
        conf      == _extract_tensor(predictions, OPACITY_KEYS)
        scales    == _extract_tensor(predictions, SCALE_KEYS)
        quats     == _extract_tensor(predictions, ROTATION_KEYS)
        sh_coeffs == _extract_tensor(predictions, SH_KEYS)
    IN  IF pts3d = None
        THEN \* HTTPException(500) raised inside the try, caught and re-raised
             ErrorResponse(500, "Failed to extract Gaussian parameters")
        ELSE CanonicalArrays(pts3d, conf, scales, quats, sh_coeffs)

\* ------------------------------------------------------------------------
\* write_gaussian_ply
\* ------------------------------------------------------------------------

\* n_sh_per_channel for a coefficient array of row width sh_dim
ShPerChannel(sh_dim) == IF sh_dim % 3 = 0 THEN sh_dim \div 3 ELSE sh_dim

\* sh after the divisibility branch: as given, or tiled across 3 channels
ShThreeChannel(sh) == IF Width(sh) % 3 = 0 THEN sh ELSE Tile3(sh)

\* "property float <name>" lines of the header, in order
HeaderProperties(n_sh_per_channel) ==
    <<"x", "y", "z", "nx", "ny", "nz">>
    \o [i \in 1..3 |-> "f_dc_" \o ToString(i - 1)]
    \o [i \in 1..((n_sh_per_channel - 1) * 3) |-> "f_rest_" \o ToString(i - 1)]
    \o <<"opacity">>
    \o [i \in 1..3 |-> "scale_" \o ToString(i - 1)]
    \o [i \in 1..4 |-> "rot_" \o ToString(i - 1)]

PlyHeader(n, n_sh_per_channel) ==
    [magic |-> "ply",
     format |-> "binary_little_endian 1.0",
     vertex |-> n,
     properties |-> HeaderProperties(n_sh_per_channel)]

\* sh_flat[i, c, k] for sh.reshape(n, 3, K); c and k count from 0
ShFlat(sh3, K, i, c, k) == sh3[i][c * K + k + 1]

\* f_dc[i] = sh_flat[i, :, 0]
FDc(sh3, K, i) == [c \in 1..3 |-> ShFlat(sh3, K, i, c - 1, 0)]

\* f_rest[i] = sh_flat[i, :, 1:].reshape(-1): channel-major, then order
FRest(sh3, K, i) ==
    [j \in 1..(3 * (K - 1)) |->
        ShFlat(sh3, K, i, (j - 1) \div (K - 1), ((j - 1) % (K - 1)) + 1)]

\* A record that writes the opacity after the rotation.
PlyRecordOpacityLast(means, opacities, scales, quats, sh3, K, i) ==
    means[i]
    \o <<0, 0, 0>>
    \o [c \in 1..3 |-> sh3[i][(c - 1) * K + 1]]
    \o [j \in 1..(3 * (K - 1)) |->
           sh3[i][((j - 1) \div (K - 1)) * K + ((j - 1) % (K - 1)) + 2]]
    \o scales[i]
    \o quats[i]
    \o <<opacities[i][1]>>

\* the floats written for point i, in the order of the f.write calls
PlyRecord(means, opacities, scales, quats, sh3, K, i) ==
    means[i]
    \o <<0, 0, 0>>
    \o FDc(sh3, K, i)
    \o (IF 3 * (K - 1) > 0 THEN FRest(sh3, K, i) ELSE <<>>)
    \o <<opacities[i][1]>>
    \o scales[i]
    \o quats[i]

\* the file a complete run of write_gaussian_ply leaves at `path`
write_gaussian_ply(means, opacities, scales, quats, sh) ==
    LET n   == Len(means)
        K   == ShPerChannel(Width(sh))
        sh3 == ShThreeChannel(sh)
    IN  [header |-> PlyHeader(n, K),
         body |-> [i \in 1..n |->
                      PlyRecord(means, FirstCols(opacities, 1), scales, quats, sh3, K, i)]]

\* ------------------------------------------------------------------------
\* reconstruct, step 8: the response
\* ------------------------------------------------------------------------

\* all sequences of k pairwise distinct indices in 0..n-1: the values
\* default_rng(42).choice(n, k, replace=False) can return
RECURSIVE Choices(_, _)
Choices(n, k) ==
    IF k = 0 THEN {<<>>}
    ELSE {Append(s, x) : s \in Choices(n, k - 1), x \in 0..(n - 1)}

DistinctChoices(n, k) ==
    {s \in Choices(n, k) : \A a, b \in 1..k : a # b => s[a] # s[b]}

\* a[indices]
Take(a, indices) == [j \in DOMAIN indices |-> a[indices[j] + 1]]

\* A point cloud whose colours are the first rows, not the sampled ones.
PointCloudUnpairedColors(params, indices) ==
    IF params.n_points > MAX_POINTS_IN_RESPONSE
    THEN [positions |-> [j \in DOMAIN indices |-> params.pts3d_np[indices[j] + 1]],
          colors |-> SubSeq(params.colors_rgb, 1, MAX_POINTS_IN_RESPONSE),
          count |-> MAX_POINTS_IN_RESPONSE]
    ELSE [positions |-> params.pts3d_np,
          colors |-> params.colors_rgb,
          count |-> params.n_points]

\* the point_cloud object; `indices` is the rng's draw (used when
\* n_points > MAX_POINTS_IN_RESPONSE)
PointCloud(params, indices) ==
    IF params.n_points > MAX_POINTS_IN_RESPONSE
    THEN [positions |-> Take(params.pts3d_np, indices),
          colors |-> Take(params.colors_rgb, indices),
          count |-> MAX_POINTS_IN_RESPONSE]
    ELSE [positions |-> params.pts3d_np,
          colors |-> params.colors_rgb,
          count |-> params.n_points]

Axis(pts, a) == {pts[i][a] : i \in DOMAIN pts}

\* the response dict (ids and elapsed time left out)
Response(params, indices, gaussian_asset_key, input_images, use_video) ==
    [ok |-> TRUE,
     status |-> 200,
     bbox |-> [min |-> [a \in 1..3 |-> MinOf(Axis(params.pts3d_np, a))],
               max |-> [a \in 1..3 |-> MaxOf(Axis(params.pts3d_np, a))]],
     centroid |-> [a \in 1..3 |->
                     SumSeq([i \in DOMAIN params.pts3d_np |-> params.pts3d_np[i][a]])
                        \div params.n_points],
     point_cloud |-> PointCloud(params, indices),
     gaussian_asset_key |-> gaussian_asset_key,
     mesh_asset_key |-> None,
     pointcloud_asset_key |-> None,
     processing_stats |-> [input_images |-> input_images,
                           detected_objects |-> 1,
                           point_count |-> params.n_points,
                           input_type |-> IF use_video THEN "video" ELSE "images"]]

\* ------------------------------------------------------------------------
\* reconstruct, step 2: frames of a video
\* ------------------------------------------------------------------------

\* frame_interval = max(1, int(src_fps / 1)); src_fps in hundredths, 0
\* when the decoder reports none
FrameInterval(fps) ==
    LET src_fps == IF fps = 0 THEN DEFAULT_FPS ELSE fps
        whole   == src_fps \div 100
    IN  IF whole < 1 THEN 1 ELSE whole

\* A test that takes every stride-th frame without a cap.
EmitsUncapped(frame_idx, frame_interval, extracted) ==
    frame_idx % frame_interval = 0

\* `frame_idx % frame_interval == 0 and extracted < max_frames`
Emits(frame_idx, frame_interval, extracted) ==
    frame_idx % frame_interval = 0 /\ extracted < MAX_FRAMES

\* the while-loop over cap.read() from frame_idx on: the decode indices
\* of the frames appended to pil_images
RECURSIVE ReadFrames(_, _, _, _)
ReadFrames(total, frame_interval, frame_idx, emitted) ==
    IF frame_idx >= total THEN emitted
    ELSE ReadFrames(total, frame_interval, frame_idx + 1,
                    IF Emits(frame_idx, frame_interval, Len(emitted))
                    THEN Append(emitted, frame_idx)
                    ELSE emitted)

\* ------------------------------------------------------------------------
\* Files
\* ------------------------------------------------------------------------

Put(fs, path, content) == (path :> content) @@ fs

Remove(fs, path) == [q \in (DOMAIN fs) \ {path} |-> fs[q]]

\* f"/tmp/{case_id}_input.mp4"
VideoPath(case_id) == "/tmp/" \o case_id \o "_input.mp4"

\* f"/tmp/gaussians_{ply_id}.ply"
LocalPlyPath(ply_id) == "/tmp/gaussians_" \o ply_id \o ".ply"

\* f"gaussians_{ply_id}.ply"
PlyFilename(ply_id) == "gaussians_" \o ply_id \o ".ply"

\* the file write_gaussian_ply leaves after the header and all records
ManualPly(params) ==
    LET f == write_gaussian_ply(params.pts3d_np, params.opacity_np, params.scales_np,
                                params.quats_np, params.sh_np)
    IN  [writer |-> "write_gaussian_ply", header |-> f.header, body |-> f.body]

\* the file a successful model.save_ply leaves: its own layout, one
\* record per point
ModelPly(params) ==
    [writer |-> "model.save_ply",
     header |-> [magic |-> "ply", format |-> "model", vertex |-> params.n_points,
                 properties |-> <<>>],
     body |-> [i \in 1..params.n_points |-> <<>>]]

\* what an interrupted write or copy of `file` can leave behind: the
\* header and fewer records than it declares
Prefixes(file) ==
    {[writer |-> file.writer, header |-> file.header, body |-> SubSeq(file.body, 1, k)] :
        k \in 0..(Len(file.body) - 1)}

\* header and every declared record present
Complete(file) == file.header # None /\ Len(file.body) = file.header.vertex

\* ------------------------------------------------------------------------
\* State
\* ------------------------------------------------------------------------

VARIABLES
    ex_pc,           \* ExtractSpec: "call" before, "returned" after the call
    ex_predictions,  \* ExtractSpec: the prediction result
    ex_keys,         \* ExtractSpec: candidate_keys
    ex_result,       \* ExtractSpec: the returned value
    ad_pc,           \* AdapterSpec: the stage about to run
    ad_predictions,  \* AdapterSpec: the model's prediction result
    ad_params,       \* AdapterSpec: step 4's arrays, or its error
    ad_file,         \* AdapterSpec: the file write_gaussian_ply wrote
    ad_indices,      \* AdapterSpec: the rng's draw of point indices
    ad_response,     \* AdapterSpec: the response dict
    req,             \* Spec: each reconstruct request's position and locals
    tmp,             \* Spec: the files under /tmp, by path
    volume_mount,    \* Spec: the files under /ply-storage as reconstruct sees them
    volume_committed,\* Spec: the committed volume, which reload() fetches
    uuid_counter,    \* Spec: number of uuid4() values handed out
    model_save_ply,  \* Spec: whether the loaded model has a save_ply attribute
    served,          \* Spec: download_ply's last response
    sm_pc,           \* SamplerSpec: the stage of the video path about to run
    sm_video,        \* SamplerSpec: what OpenCV finds in the video file
    sm_frame_interval, \* SamplerSpec: frame_interval
    sm_frame_idx,    \* SamplerSpec: frame_idx
    sm_pil_images,   \* SamplerSpec: decode indices of the frames in pil_images
    sm_outcome       \* SamplerSpec: the HTTPException raised, if any

exVars == <<ex_pc, ex_predictions, ex_keys, ex_result>>

adVars == <<ad_pc, ad_predictions, ad_params, ad_file, ad_indices, ad_response>>

rqVars == <<req, tmp, volume_mount, volume_committed, uuid_counter, model_save_ply,
            served>>

smVars == <<sm_pc, sm_video, sm_frame_interval, sm_frame_idx, sm_pil_images,
            sm_outcome>>

vars == <<exVars, adVars, rqVars, smVars>>

\* ------------------------------------------------------------------------
\* ExtractSpec
\* ------------------------------------------------------------------------

ExKeys == {"pts3d", "means3D", "means", "xyz"}

ExTensors == {Tensor(<<1000>>), Tensor(<<2000>>)}

RECURSIVE SeqsUpTo(_, _)
SeqsUpTo(S, n) ==
    IF n = 0 THEN {<<>>}
    ELSE LET shorter == SeqsUpTo(S, n - 1)
         IN  shorter \cup {Append(s, x) : s \in {t \in shorter : Len(t) = n - 1}, x \in S}

ExPredictions ==
    {Prediction(kind, f) : kind \in {"dict", "object"},
                           f \in UNION {[D -> ExTensors] : D \in SUBSET ExKeys}}

ExIdle ==
    /\ ex_pc = "idle"
    /\ ex_predictions = Prediction("dict", <<>>)
    /\ ex_keys = <<>>
    /\ ex_result = None

ExInit ==
    /\ ex_pc = "call"
    /\ ex_predictions \in ExPredictions
    /\ ex_keys \in SeqsUpTo(ExKeys, MaxAliases)
    /\ ex_result = None

ExCall ==
    /\ ex_pc = "call"
    /\ ex_result' = _extract_tensor(ex_predictions, ex_keys)
    /\ ex_pc' = "returned"
    /\ UNCHANGED <<ex_predictions, ex_keys>>
    /\ UNCHANGED <<adVars, rqVars, smVars>>

ExNext == ExCall

\* ------------------------------------------------------------------------
\* AdapterSpec
\* ------------------------------------------------------------------------

\* a tensor of `len` distinct values start, start+step, ...
Ramp(len, start, step) == Tensor([j \in 1..len |-> start + step * (j - 1)])

\* the one-entry mapping key -> tensor, or no entry when len = 0
Field(key, len, start, step) ==
    IF len = 0 THEN <<>> ELSE key :> Ramp(len, start, step)

\* lengths of the position tensor: absent, 3 per point, or not a multiple of 3
AdPositionLens(n) == {0, 3 * n, 3 * n + 1}
\* lengths of the confidence tensor: absent, 1 or 2 per point, or ragged
AdOpacityLens(n) == {0, n, 2 * n, n + 1}
AdScaleLens(n) == {0, 3 * n, 3 * n + 1}
AdRotationLens(n) == {0, 4 * n, 4 * n + 1}
\* lengths of the coefficient tensor: absent, W per point, or ragged
AdShLens(n) == {0, n + 1} \cup {n * w : w \in 1..MaxW}

AdPredictionsOf(n) ==
    {Prediction(kind,
                Field(pk, pl, 1000, 1000) @@ Field("confidence", ol, 100, 50)
                @@ Field("log_scales", sl, -3000, 100) @@ Field("rots", ql, 10, 10)
                @@ Field("features_dc", hl, -400, 60)) :
        kind \in {"dict", "object"},
        pk \in {"pts3d", "xyz"},
        pl \in AdPositionLens(n),
        ol \in AdOpacityLens(n),
        sl \in AdScaleLens(n),
        ql \in AdRotationLens(n),
        hl \in AdShLens(n)}

AdPredictions == UNION {AdPredictionsOf(n) : n \in 1..MaxN}

AdIdle ==
    /\ ad_pc = "idle"
    /\ ad_predictions = Prediction("dict", <<>>)
    /\ ad_params = None
    /\ ad_file = None
    /\ ad_indices = <<>>
    /\ ad_response = None

AdInit ==
    /\ ad_pc = "extract"
    /\ ad_predictions \in AdPredictions
    /\ ad_params = None
    /\ ad_file = None
    /\ ad_indices = <<>>
    /\ ad_response = None

\* step 4
AdExtract ==
    /\ ad_pc = "extract"
    /\ ad_params' = ExtractGaussianParameters(ad_predictions)
    /\ ad_pc' = IF ad_params'.ok THEN "write" ELSE "failed"
    /\ UNCHANGED <<ad_predictions, ad_file, ad_indices, ad_response>>
    /\ UNCHANGED <<exVars, rqVars, smVars>>

\* step 5, the call of write_gaussian_ply
AdWrite ==
    /\ ad_pc = "write"
    /\ ad_file' = write_gaussian_ply(ad_params.pts3d_np, ad_params.opacity_np,
                                     ad_params.scales_np, ad_params.quats_np,
                                     ad_params.sh_np)
    /\ ad_pc' = "assemble"
    /\ UNCHANGED <<ad_predictions, ad_params, ad_indices, ad_response>>
    /\ UNCHANGED <<exVars, rqVars, smVars>>

\* step 8
AdAssemble ==
    /\ ad_pc = "assemble"
    /\ \E indices \in IF ad_params.n_points > MAX_POINTS_IN_RESPONSE
                      THEN DistinctChoices(ad_params.n_points, MAX_POINTS_IN_RESPONSE)
                      ELSE {<<>>} :
          /\ ad_indices' = indices
          /\ ad_response' = Response(ad_params, indices, Str("gaussians_1.ply"), 1, FALSE)
    /\ ad_pc' = "done"
    /\ UNCHANGED <<ad_predictions, ad_params, ad_file>>
    /\ UNCHANGED <<exVars, rqVars, smVars>>

AdNext == AdExtract \/ AdWrite \/ AdAssemble

\* ------------------------------------------------------------------------
\* SamplerSpec: the video path of step 2 over many videos
\* ------------------------------------------------------------------------

\* what OpenCV finds in a video file: whether it opens, its frame rate in
\* hundredths (0: none reported) and the number of frames it decodes
Video(opens, fps, frames) == [opens |-> opens, fps |-> fps, frames |-> frames]

\* short videos of every frame rate up to MaxFps / 100, and of 29.97
SmShortVideos == {Video(TRUE, fps, T) : fps \in (0..MaxFps) \cup {2997}, T \in 0..MaxT}

\* videos around MAX_FRAMES sampled frames, at s frames per second
SmLongVideos ==
    UNION {{Video(TRUE, 100 * s, T) :
               T \in (s * MAX_FRAMES - s)..(s * MAX_FRAMES + MaxOver)} :
           s \in 1..MaxLongStride}

SmVideos == SmShortVideos \cup SmLongVideos \cup {Video(FALSE, 0, 0)}

SmIdle ==
    /\ sm_pc = "idle"
    /\ sm_video = Video(FALSE, 0, 0)
    /\ sm_frame_interval = 0
    /\ sm_frame_idx = 0
    /\ sm_pil_images = <<>>
    /\ sm_outcome = None

SmInit ==
    /\ sm_pc = "open"
    /\ sm_video \in SmVideos
    /\ sm_frame_interval = 0
    /\ sm_frame_idx = 0
    /\ sm_pil_images = <<>>
    /\ sm_outcome = None

\* cv2.VideoCapture, isOpened, src_fps and frame_interval
SmOpen ==
    /\ sm_pc = "open"
    /\ IF ~sm_video.opens
       THEN /\ sm_outcome' = ErrorResponse(400, "Failed to process video input")
            /\ sm_pc' = "done"
            /\ UNCHANGED sm_frame_interval
       ELSE /\ sm_frame_interval' = FrameInterval(sm_video.fps)
            /\ sm_pc' = "read"
            /\ UNCHANGED sm_outcome
    /\ UNCHANGED <<sm_video, sm_frame_idx, sm_pil_images>>
    /\ UNCHANGED <<exVars, adVars, rqVars>>

\* one pass of the while-loop in which cap.read() returns a frame
SmReadFrame ==
    /\ sm_pc = "read"
    /\ sm_frame_idx < sm_video.frames
    /\ sm_pil_images' = IF Emits(sm_frame_idx, sm_frame_interval, Len(sm_pil_images))
                        THEN Append(sm_pil_images, sm_frame_idx)
                        ELSE sm_pil_images
    /\ sm_frame_idx' = sm_frame_idx + 1
    /\ UNCHANGED <<sm_pc, sm_video, sm_frame_interval, sm_outcome>>
    /\ UNCHANGED <<exVars, adVars, rqVars>>

\* cap.read() returns no frame: break, then cap.release()
SmReadEnd ==
    /\ sm_pc = "read"
    /\ sm_frame_idx >= sm_video.frames
    /\ sm_pc' = "check"
    /\ UNCHANGED <<sm_video, sm_frame_interval, sm_frame_idx, sm_pil_images, sm_outcome>>
    /\ UNCHANGED <<exVars, adVars, rqVars>>

\* `if len(pil_images) == 0: raise`, answered with 400 by the except
SmCheck ==
    /\ sm_pc = "check"
    /\ sm_outcome' = IF Len(sm_pil_images) = 0
                     THEN ErrorResponse(400, "Failed to process video input")
                     ELSE None
    /\ sm_pc' = "done"
    /\ UNCHANGED <<sm_video, sm_frame_interval, sm_frame_idx, sm_pil_images>>
    /\ UNCHANGED <<exVars, adVars, rqVars>>

SmNext == SmOpen \/ SmReadFrame \/ SmReadEnd \/ SmCheck

\* ------------------------------------------------------------------------
\* Spec: reconstruct and download_ply
\* ------------------------------------------------------------------------

Requests == {"r1", "r2"}

\* video_base64 values: "", a string base64 cannot decode, an encoded video
EmptyString == [len |-> 0]
Undecodable == [len |-> 4, decodes |-> FALSE]
EncodedVideo(video) == [len |-> 4, decodes |-> TRUE, bytes |-> video]

\* scan_asset_keys values: a list of base64 images, "bad" one that does
\* not decode to an image
List(l) == [list |-> l]

Item(case_id, video_base64, scan_asset_keys) ==
    [case_id |-> case_id, video_base64 |-> video_base64,
     scan_asset_keys |-> scan_asset_keys]

Items ==
    {Item(None, None, List(<<"img">>)),
     Item(Str(""), EncodedVideo(Video(TRUE, 200, 3)), None),
     Item(Str("a"), None, None),
     Item(Str("a"), EmptyString, List(<<>>)),
     Item(Str("a"), None, List(<<"img">>)),
     Item(Str("a"), None, List(<<"img", "bad">>)),
     Item(Str("a"), Undecodable, None),
     Item(Str("a"), EncodedVideo(Video(FALSE, 0, 0)), None),
     Item(Str("a"), EncodedVideo(Video(TRUE, 0, 0)), None),
     Item(Str("a"), EncodedVideo(Video(TRUE, 200, 3)), List(<<"img">>)),
     Item(Str("b"), EncodedVideo(Video(TRUE, 200, 3)), List(<<"img">>))}

\* A truth test that only None fails.
FalsyNoneOnly(x) == x = None

\* `not x` for the request's fields
Falsy(x) ==
    \/ x = None
    \/ "str" \in DOMAIN x /\ x.str = ""
    \/ "len" \in DOMAIN x /\ x.len = 0
    \/ "list" \in DOMAIN x /\ x.list = <<>>

\* the prediction results the model returns in Spec
SamplePredictions ==
    {Prediction("dict", Field("confidence", 1, 100, 50)),
     Prediction("dict", Field("pts3d", 3, 1000, 1000)),
     Prediction("object", Field("xyz", 3, 1000, 1000)
                          @@ ("save_ply" :> [method |-> "save_ply"]))}

NewRequest ==
    [pc |-> "start",
     item |-> None,
     case_id |-> None,
     video_b64 |-> None,
     b64_images |-> None,
     use_video |-> FALSE,
     video_path |-> None,
     pil_images |-> <<>>,
     predictions |-> None,
     params |-> None,
     ply_id |-> None,
     exported |-> FALSE,
     gaussian_asset_key |-> None,
     outcome |-> None,
     written |-> {},
     storage_failed |-> FALSE]

\* the request returns `outcome` (a response, or a raised HTTPException)
Return(r, outcome) == [req[r] EXCEPT !.pc = "done", !.outcome = outcome]

\* the request once it holds its argument
Received(r, item) == [req EXCEPT ![r].item = item]

RqIdle ==
    /\ req = [r \in Requests |-> [NewRequest EXCEPT !.pc = "off"]]
    /\ tmp = <<>>
    /\ volume_mount = <<>>
    /\ volume_committed = <<>>
    /\ uuid_counter = 0
    /\ model_save_ply = FALSE
    /\ served = None

RqInit ==
    /\ req = [r \in Requests |-> NewRequest]
    /\ tmp = <<>>
    /\ volume_mount = <<>>
    /\ volume_committed = <<>>
    /\ uuid_counter = 0
    /\ model_save_ply \in BOOLEAN
    /\ served = None

\* step 1: parse and validate the request
Validate(r) ==
    /\ req[r].pc = "start"
    /\ \E item \in Items :
          LET case_id    == item.case_id
              video_b64  == item.video_base64
              b64_images == item.scan_asset_keys
              got        == Received(r, item)
          IN  IF Falsy(case_id)
              THEN req' = [got EXCEPT ![r] = [Return(r, ErrorResponse(400, "case_id is required"))
                                                 EXCEPT !.item = item]]
              ELSE IF Falsy(video_b64) /\ Falsy(b64_images)
              THEN req' = [got EXCEPT ![r] = [Return(r, ErrorResponse(400,
                              "Either video_base64 or scan_asset_keys is required"))
                                                 EXCEPT !.item = item]]
              ELSE LET use_video == video_b64 # None /\ video_b64.len > 0
                   IN  req' = [got EXCEPT ![r].case_id = case_id,
                                          ![r].video_b64 = video_b64,
                                          ![r].b64_images = b64_images,
                                          ![r].use_video = use_video,
                                          ![r].pc = IF use_video THEN "write_video"
                                                    ELSE "decode_images"]
    /\ UNCHANGED <<tmp, volume_mount, volume_committed, uuid_counter, model_save_ply, served>>
    /\ UNCHANGED <<exVars, adVars, smVars>>

\* step 2, video path: base64.b64decode and the write of the temp video
WriteVideo(r) ==
    /\ req[r].pc = "write_video"
    /\ IF ~req[r].video_b64.decodes
       THEN /\ req' = [req EXCEPT ![r] = Return(r, ErrorResponse(400,
                           "Failed to process video input"))]
            /\ tmp' = tmp
       ELSE LET video_path == VideoPath(req[r].case_id.str)
            IN  /\ tmp' = Put(tmp, video_path,
                              [owner |-> r, video |-> req[r].video_b64.bytes])
                /\ req' = [req EXCEPT ![r].video_path = Str(video_path),
                                      ![r].written = @ \cup {video_path},
                                      ![r].pc = "read_video"]
    /\ UNCHANGED <<volume_mount, volume_committed, uuid_counter, model_save_ply, served>>
    /\ UNCHANGED <<exVars, adVars, smVars>>

\* step 2, video path: cv2.VideoCapture, the frame loop and the
\* zero-frame check; any raise is answered with 400
ReadVideo(r) ==
    /\ req[r].pc = "read_video"
    /\ LET video_path == req[r].video_path.str
           opened == video_path \in DOMAIN tmp /\ tmp[video_path].video.opens
       IN  IF ~opened
           THEN req' = [req EXCEPT ![r] = Return(r, ErrorResponse(400,
                           "Failed to process video input"))]
           ELSE LET video == tmp[video_path].video
                    frames == ReadFrames(video.frames, FrameInterval(video.fps), 0, <<>>)
                IN  IF Len(frames) = 0
                    THEN req' = [req EXCEPT ![r] = Return(r, ErrorResponse(400,
                                    "Failed to process video input"))]
                    ELSE req' = [req EXCEPT ![r].pil_images = frames,
                                            ![r].pc = "remove_video"]
    /\ UNCHANGED <<tmp, volume_mount, volume_committed, uuid_counter, model_save_ply, served>>
    /\ UNCHANGED <<exVars, adVars, smVars>>

\* step 2, video path: os.remove(video_path), OSError ignored
RemoveVideo(r) ==
    /\ req[r].pc = "remove_video"
    /\ tmp' = Remove(tmp, req[r].video_path.str)
    /\ req' = [req EXCEPT ![r].pc = "inference"]
    /\ UNCHANGED <<volume_mount, volume_committed, uuid_counter, model_save_ply, served>>
    /\ UNCHANGED <<exVars, adVars, smVars>>

\* step 2, image path
DecodeImages(r) ==
    /\ req[r].pc = "decode_images"
    /\ LET images == req[r].b64_images.list
       IN  IF \E i \in 1..Len(images) : images[i] = "bad"
           THEN req' = [req EXCEPT ![r] = Return(r, ErrorResponse(400,
                           "Failed to decode images"))]
           ELSE req' = [req EXCEPT ![r].pil_images = [i \in 1..Len(images) |-> i - 1],
                                   ![r].pc = "inference"]
    /\ UNCHANGED <<tmp, volume_mount, volume_committed, uuid_counter, model_save_ply, served>>
    /\ UNCHANGED <<exVars, adVars, smVars>>

\* step 3: the model call returns a prediction result, or raises
Inference(r) ==
    /\ req[r].pc = "inference"
    /\ \/ \E predictions \in SamplePredictions :
             req' = [req EXCEPT ![r].predictions = predictions, ![r].pc = "extract"]
       \/ req' = [req EXCEPT ![r] = Return(r, ErrorResponse(500, "Model inference failed"))]
    /\ UNCHANGED <<tmp, volume_mount, volume_committed, uuid_counter, model_save_ply, served>>
    /\ UNCHANGED <<exVars, adVars, smVars>>

\* step 4
ExtractParams(r) ==
    /\ req[r].pc = "extract"
    /\ LET params == ExtractGaussianParameters(req[r].predictions)
       IN  IF params.ok
           THEN req' = [req EXCEPT ![r].params = params, ![r].pc = "export_ply"]
           ELSE req' = [req EXCEPT ![r] = Return(r, params)]
    /\ UNCHANGED <<tmp, volume_mount, volume_committed, uuid_counter, model_save_ply, served>>
    /\ UNCHANGED <<exVars, adVars, smVars>>

\* uuid.uuid4(): the next identifier never handed out before
Uuid4 == "u" \o ToString(uuid_counter + 1)

\* `hasattr(predictions, "save_ply") or (isinstance(predictions, dict)
\*  and "save_ply" in dir(model))`
TriesBuiltinExport(predictions) ==
    \/ predictions.kind = "object" /\ HasAttr(predictions, "save_ply")
    \/ predictions.kind = "dict" /\ model_save_ply

\* step 5, first half: ply_id, local_ply_path and the model's built-in
\* export, whose exceptions are swallowed
ExportPly(r) ==
    /\ req[r].pc = "export_ply"
    /\ uuid_counter' = uuid_counter + 1
    /\ LET ply_id == Uuid4
           local_ply_path == LocalPlyPath(ply_id)
       IN  \/ \* model.save_ply wrote the file
              /\ TriesBuiltinExport(req[r].predictions)
              /\ model_save_ply
              /\ tmp' = Put(tmp, local_ply_path,
                            [owner |-> r, file |-> ModelPly(req[r].params)])
              /\ req' = [req EXCEPT ![r].ply_id = Str(ply_id),
                                    ![r].exported = TRUE,
                                    ![r].written = @ \cup {local_ply_path},
                                    ![r].pc = "makedirs"]
           \/ \* model.save_ply raised part-way through its file
              /\ TriesBuiltinExport(req[r].predictions)
              /\ model_save_ply
              /\ \E left \in Prefixes(ModelPly(req[r].params)) :
                    tmp' = Put(tmp, local_ply_path, [owner |-> r, file |-> left])
              /\ req' = [req EXCEPT ![r].ply_id = Str(ply_id),
                                    ![r].written = @ \cup {local_ply_path},
                                    ![r].pc = "write_ply"]
           \/ \* not tried, or the model has no save_ply (AttributeError)
              /\ ~(TriesBuiltinExport(req[r].predictions) /\ model_save_ply)
              /\ tmp' = tmp
              /\ req' = [req EXCEPT ![r].ply_id = Str(ply_id), ![r].pc = "write_ply"]
    /\ UNCHANGED <<volume_mount, volume_committed, model_save_ply, served>>
    /\ UNCHANGED <<exVars, adVars, smVars>>

\* step 5, second half: write_gaussian_ply(local_ply_path, ...) when the
\* model did not export; an exception is answered with 500
WritePly(r) ==
    /\ req[r].pc = "write_ply"
    /\ LET local_ply_path == LocalPlyPath(req[r].ply_id.str)
           full == ManualPly(req[r].params)
       IN  \/ \* header and all records written
              /\ tmp' = Put(tmp, local_ply_path, [owner |-> r, file |-> full])
              /\ req' = [req EXCEPT ![r].written = @ \cup {local_ply_path},
                                    ![r].pc = "makedirs"]
           \/ \* a write raised after open(path, "wb")
              /\ \E left \in Prefixes(full) :
                    tmp' = Put(tmp, local_ply_path, [owner |-> r, file |-> left])
              /\ req' = [req EXCEPT ![r] =
                            [Return(r, ErrorResponse(500, "Failed to write PLY"))
                                EXCEPT !.written = @ \cup {local_ply_path}]]
           \/ \* open(path, "wb") raised
              /\ tmp' = tmp
              /\ req' = [req EXCEPT ![r] = Return(r, ErrorResponse(500, "Failed to write PLY"))]
    /\ UNCHANGED <<volume_mount, volume_committed, uuid_counter, model_save_ply, served>>
    /\ UNCHANGED <<exVars, adVars, smVars>>

\* the request after an exception in step 6: the key stays None
StorageFailed(r) == [req[r] EXCEPT !.storage_failed = TRUE, !.pc = "remove_ply"]

\* step 6: os.makedirs(PLY_VOLUME_PATH, exist_ok=True)
Makedirs(r) ==
    /\ req[r].pc = "makedirs"
    /\ \/ req' = [req EXCEPT ![r].pc = "copy"]
       \/ req' = [req EXCEPT ![r] = StorageFailed(r)]
    /\ UNCHANGED <<tmp, volume_mount, volume_committed, uuid_counter, model_save_ply, served>>
    /\ UNCHANGED <<exVars, adVars, smVars>>

\* step 6: shutil.copy2(local_ply_path, volume_ply_path)
Copy(r) ==
    /\ req[r].pc = "copy"
    /\ LET local_ply_path == LocalPlyPath(req[r].ply_id.str)
           ply_filename == PlyFilename(req[r].ply_id.str)
       IN  \/ \* copied in full
              /\ local_ply_path \in DOMAIN tmp
              /\ volume_mount' = Put(volume_mount, ply_filename, tmp[local_ply_path].file)
              /\ req' = [req EXCEPT ![r].pc = "commit"]
           \/ \* raised part-way: the destination keeps what was copied
              /\ local_ply_path \in DOMAIN tmp
              /\ \E left \in Prefixes(tmp[local_ply_path].file) :
                    volume_mount' = Put(volume_mount, ply_filename, left)
              /\ req' = [req EXCEPT ![r] = StorageFailed(r)]
           \/ \* raised before the destination was created
              /\ volume_mount' = volume_mount
              /\ req' = [req EXCEPT ![r] = StorageFailed(r)]
    /\ UNCHANGED <<tmp, volume_committed, uuid_counter, model_save_ply, served>>
    /\ UNCHANGED <<exVars, adVars, smVars>>

\* A key that is set whether or not the save succeeded.
KeyAfterSaveAlways(saved, ply_filename) == Str(ply_filename)

\* gaussian_asset_key after the try block of step 6
KeyAfterSave(saved, ply_filename) == IF saved THEN Str(ply_filename) ELSE None

\* step 6: ply_volume.commit() and the assignment of gaussian_asset_key
Commit(r) ==
    /\ req[r].pc = "commit"
    /\ LET ply_filename == PlyFilename(req[r].ply_id.str)
       IN  \/ \* committed: the mounted files become the volume's contents
              /\ volume_committed' = volume_mount
              /\ req' = [req EXCEPT ![r].gaussian_asset_key = KeyAfterSave(TRUE, ply_filename),
                                    ![r].pc = "remove_ply"]
           \/ \* commit raised
              /\ volume_committed' = volume_committed
              /\ req' = [req EXCEPT ![r] =
                            [StorageFailed(r) EXCEPT !.gaussian_asset_key =
                                                        KeyAfterSave(FALSE, ply_filename)]]
    /\ UNCHANGED <<tmp, volume_mount, uuid_counter, model_save_ply, served>>
    /\ UNCHANGED <<exVars, adVars, smVars>>

\* step 7: os.remove(local_ply_path), OSError ignored
RemovePly(r) ==
    /\ req[r].pc = "remove_ply"
    /\ tmp' = Remove(tmp, LocalPlyPath(req[r].ply_id.str))
    /\ req' = [req EXCEPT ![r].pc = "respond"]
    /\ UNCHANGED <<volume_mount, volume_committed, uuid_counter, model_save_ply, served>>
    /\ UNCHANGED <<exVars, adVars, smVars>>

\* step 8: the response is built and returned
Respond(r) ==
    /\ req[r].pc = "respond"
    /\ \E indices \in IF req[r].params.n_points > MAX_POINTS_IN_RESPONSE
                      THEN DistinctChoices(req[r].params.n_points, MAX_POINTS_IN_RESPONSE)
                      ELSE {<<>>} :
          req' = [req EXCEPT ![r] =
                     Return(r, Response(req[r].params, indices, req[r].gaussian_asset_key,
                                        Len(req[r].pil_images), req[r].use_video))]
    /\ UNCHANGED <<tmp, volume_mount, volume_committed, uuid_counter, model_save_ply, served>>
    /\ UNCHANGED <<exVars, adVars, smVars>>

\* download_ply's answer for `filename` after ply_volume.reload()
Download(filename) ==
    IF filename \notin DOMAIN volume_committed
    THEN [status_code |-> 404, filename |-> filename]
    ELSE [status_code |-> 200, filename |-> filename, file |-> volume_committed[filename]]

\* filenames a client may ask for: those of the ids handed out so far
KnownFilenames == {PlyFilename("u" \o ToString(i)) : i \in 1..uuid_counter}

\* download_ply(filename)
DownloadPly ==
    /\ \E filename \in KnownFilenames : served' = Download(filename)
    /\ UNCHANGED <<req, tmp, volume_mount, volume_committed, uuid_counter, model_save_ply>>
    /\ UNCHANGED <<exVars, adVars, smVars>>

Next ==
    \/ \E r \in Requests :
          \/ Validate(r) \/ WriteVideo(r) \/ ReadVideo(r) \/ RemoveVideo(r)
          \/ DecodeImages(r) \/ Inference(r) \/ ExtractParams(r)
          \/ ExportPly(r) \/ WritePly(r)
          \/ Makedirs(r) \/ Copy(r) \/ Commit(r) \/ RemovePly(r) \/ Respond(r)
    \/ DownloadPly

Init == RqInit /\ ExIdle /\ AdIdle /\ SmIdle

Spec == Init /\ [][Next]_vars

ExtractInit == ExInit /\ AdIdle /\ RqIdle /\ SmIdle

ExtractSpec == ExtractInit /\ [][ExNext]_vars

AdapterInit == AdInit /\ ExIdle /\ RqIdle /\ SmIdle

AdapterSpec == AdapterInit /\ [][AdNext]_vars

SamplerInit == SmInit /\ ExIdle /\ AdIdle /\ RqIdle

SamplerSpec == SamplerInit /\ [][SmNext]_vars


\* ------------------------------------------------------------------------
\* Properties of _extract_tensor (ExtractSpec)
\* ------------------------------------------------------------------------

\* positions of ex_keys whose alias the prediction result exposes
ExPresent == {i \in 1..Len(ex_keys) : ex_keys[i] \in DOMAIN ex_predictions.fields}

\* C5: _extract_tensor returns the value stored under the first alias of
\* the list that the result exposes, whatever later aliases it also
\* exposes, and returns None exactly when it exposes none of them; with the
\* position aliases, a result exposing pts3d and means3D yields pts3d.
C5_FirstAliasWins ==
    ex_pc = "returned" =>
        /\ (ExPresent = {}) <=> (ex_result = None)
        /\ ExPresent # {} =>
              ex_result = ex_predictions.fields[ex_keys[MinOf(ExPresent)]]
        /\ (ex_keys = POSITION_KEYS
            /\ {"pts3d", "means3D"} \subseteq DOMAIN ex_predictions.fields) =>
              ex_result = ex_predictions.fields["pts3d"]

\* C5 witness: an attribute-like result exposing pts3d and means3D with
\* different values, resolved over the position aliases to pts3d's value.
C5_Witness ==
    /\ ex_pc = "returned"
    /\ ex_predictions.kind = "object"
    /\ ex_keys = POSITION_KEYS
    /\ {"pts3d", "means3D"} \subseteq DOMAIN ex_predictions.fields
    /\ ex_predictions.fields["pts3d"] # ex_predictions.fields["means3D"]
    /\ ex_result = ex_predictions.fields["pts3d"]

\* ------------------------------------------------------------------------
\* Properties of the numeric stages (AdapterSpec)
\* ------------------------------------------------------------------------

AdExposes(keys) == \E i \in 1..Len(keys) : keys[i] \in DOMAIN ad_predictions.fields

\* the prediction result without the entries whose key is in D
Without(predictions, D) ==
    Prediction(predictions.kind,
               [k \in (DOMAIN predictions.fields) \ D |-> predictions.fields[k]])

Elements(keys) == {keys[i] : i \in 1..Len(keys)}

OptionalKeys ==
    Elements(OPACITY_KEYS) \cup Elements(SCALE_KEYS)
        \cup Elements(ROTATION_KEYS) \cup Elements(SH_KEYS)

AdSucceeded == ad_pc \in {"write", "assemble", "done"}

\* the true number of points: a third of the position tensor's length
AdTrueN == Len(_extract_tensor(ad_predictions, POSITION_KEYS).data) \div 3

\* C6: when step 4 succeeds for N positions, the opacity, scale, rotation
\* and coefficient arrays have N rows, every optional field the result
\* does not expose holds its default in every row, and taking any set of
\* optional fields away from the result leaves step 4 succeeding.
C6_DefaultsAndLengths ==
    AdSucceeded =>
        /\ ad_params.n_points = AdTrueN
        /\ Len(ad_params.pts3d_np) = AdTrueN
        /\ Len(ad_params.opacity_np) = AdTrueN
        /\ Len(ad_params.scales_np) = AdTrueN
        /\ Len(ad_params.quats_np) = AdTrueN
        /\ Len(ad_params.sh_np) = AdTrueN
        /\ ~AdExposes(OPACITY_KEYS) =>
              \A i \in 1..AdTrueN : ad_params.opacity_np[i] = <<800>>
        /\ ~AdExposes(SCALE_KEYS) =>
              \A i \in 1..AdTrueN : ad_params.scales_np[i] = <<-5000, -5000, -5000>>
        /\ ~AdExposes(ROTATION_KEYS) =>
              \A i \in 1..AdTrueN : ad_params.quats_np[i] = <<1000, 0, 0, 0>>
        /\ ~AdExposes(SH_KEYS) =>
              \A i \in 1..AdTrueN : ad_params.sh_np[i] = <<0, 0, 0>>
        /\ \A D \in SUBSET (OptionalKeys \cap DOMAIN ad_predictions.fields) :
              ExtractGaussianParameters(Without(ad_predictions, D)).ok

\* C6 witness: step 4 succeeded for more than one point on a result that
\* exposes no optional field.
C6_Witness ==
    /\ AdSucceeded
    /\ ad_params.n_points > 1
    /\ ~AdExposes(OPACITY_KEYS) /\ ~AdExposes(SCALE_KEYS)
    /\ ~AdExposes(ROTATION_KEYS) /\ ~AdExposes(SH_KEYS)
    /\ ad_params.quats_np[2] = <<1000, 0, 0, 0>>

\* the point that entry j of the response's point cloud was taken from
AdPointOf(j) ==
    IF ad_params.n_points > MAX_POINTS_IN_RESPONSE THEN ad_indices[j] + 1 ELSE j

\* position of property `name` in the written file's header
AdProp(name) ==
    CHOOSE k \in 1..Len(ad_file.header.properties) :
        ad_file.header.properties[k] = name

\* C7 (as claimed): for a coefficient width W divisible by 3, K = W/3, the
\* response colour of a point, channel c, is derived from coefficient
\* column c*K, the coefficient the file stores as f_dc_c for that point.
C7_ColorsFromDcColumns ==
    (ad_pc = "done" /\ Width(ad_params.sh_np) % 3 = 0) =>
        LET K == Width(ad_params.sh_np) \div 3
        IN  \A j \in 1..ad_response.point_cloud.count : \A c \in 0..2 :
               /\ ad_response.point_cloud.colors[j][c + 1]
                     = DcToRgb(ad_params.sh_np[AdPointOf(j)][c * K + 1])
               /\ ad_response.point_cloud.colors[j][c + 1]
                     = DcToRgb(ad_file.body[AdPointOf(j)][AdProp("f_dc_" \o ToString(c))])


\* C7 failing case: a one-point result whose coefficient row has width 6
\* (K = 2) reached the response.
C7_Witness ==
    /\ ad_pc = "done"
    /\ Width(ad_params.sh_np) = 6
    /\ ad_response.point_cloud.colors[1][2] = DcToRgb(ad_params.sh_np[1][2])
    /\ ad_file.body[1][AdProp("f_dc_1")] = ad_params.sh_np[1][3]

AdFileWritten == ad_pc \in {"assemble", "done"}

\* the coefficient row of point i as the claim splits it: the row itself
\* when its width is divisible by 3, else the row replicated 3 times
AdSplitRow(i) ==
    IF Width(ad_params.sh_np) % 3 = 0
    THEN ad_params.sh_np[i]
    ELSE ad_params.sh_np[i] \o ad_params.sh_np[i] \o ad_params.sh_np[i]

\* C8: the written file declares vertex count N and the properties x y z,
\* nx ny nz, f_dc_0..2, f_rest_0..3(K-1)-1, opacity, scale_0..2, rot_0..3;
\* its body has N records, each with one float per declared property, and
\* read by the header each property holds that point's canonical value.
C8_FileMatchesHeader ==
    AdFileWritten =>
        LET W     == Width(ad_params.sh_np)
            K     == IF W % 3 = 0 THEN W \div 3 ELSE W
            props == ad_file.header.properties
            rest  == 3 * (K - 1)
        IN  /\ ad_file.header.vertex = AdTrueN
            /\ ad_file.header.format = "binary_little_endian 1.0"
            /\ Len(props) = 14 + 3 * K
            /\ SubSeq(props, 1, 9)
                  = <<"x", "y", "z", "nx", "ny", "nz", "f_dc_0", "f_dc_1", "f_dc_2">>
            /\ \A j \in 1..rest : props[9 + j] = "f_rest_" \o ToString(j - 1)
            /\ SubSeq(props, 10 + rest, 17 + rest)
                  = <<"opacity", "scale_0", "scale_1", "scale_2",
                      "rot_0", "rot_1", "rot_2", "rot_3">>
            /\ Len(ad_file.body) = AdTrueN
            /\ \A i \in 1..AdTrueN :
                  LET rec == ad_file.body[i]
                  IN  /\ Len(rec) = Len(props)
                      /\ <<rec[AdProp("x")], rec[AdProp("y")], rec[AdProp("z")]>>
                            = ad_params.pts3d_np[i]
                      /\ <<rec[AdProp("nx")], rec[AdProp("ny")], rec[AdProp("nz")]>>
                            = <<0, 0, 0>>
                      /\ \A c \in 0..2 :
                            rec[AdProp("f_dc_" \o ToString(c))] = AdSplitRow(i)[c * K + 1]
                      /\ \A c \in 0..2 : \A k \in 1..(K - 1) :
                            rec[AdProp("f_rest_" \o ToString(c * (K - 1) + k - 1))]
                               = AdSplitRow(i)[c * K + k + 1]
                      /\ rec[AdProp("opacity")] = ad_params.opacity_np[i][1]
                      /\ \A a \in 0..2 :
                            rec[AdProp("scale_" \o ToString(a))] = ad_params.scales_np[i][a + 1]
                      /\ \A a \in 0..3 :
                            rec[AdProp("rot_" \o ToString(a))] = ad_params.quats_np[i][a + 1]

\* C8 witness: a file written for two points whose coefficient rows have
\* width 4 (not divisible by 3), so each record holds 26 floats.
C8_Witness ==
    /\ AdFileWritten
    /\ ad_params.n_points = 2
    /\ Width(ad_params.sh_np) = 4
    /\ Len(ad_file.body) = 2
    /\ Len(ad_file.body[2]) = 26

\* C9: in a success response, point_cloud.count = min(N, cap), positions
\* and colors have count entries, processing_stats.point_count = N, and
\* when N > cap the entries come from cap pairwise distinct points, entry
\* j of positions and of colors from the same point.
C9_PointCloudSample ==
    ad_pc = "done" =>
        LET pc  == ad_response.point_cloud
            cap == MAX_POINTS_IN_RESPONSE
        IN  /\ pc.count = IF AdTrueN < cap THEN AdTrueN ELSE cap
            /\ Len(pc.positions) = pc.count
            /\ Len(pc.colors) = pc.count
            /\ ad_response.processing_stats.point_count = AdTrueN
            /\ AdTrueN > cap =>
                  /\ Len(ad_indices) = cap
                  /\ \A j \in 1..cap : ad_indices[j] \in 0..(AdTrueN - 1)
                  /\ Cardinality({ad_indices[j] : j \in 1..cap}) = cap
                  /\ \A j \in 1..cap :
                        /\ pc.positions[j] = ad_params.pts3d_np[ad_indices[j] + 1]
                        /\ pc.colors[j] = ad_params.colors_rgb[ad_indices[j] + 1]

\* C9 witness: a response for more points than the cap, sampled out of
\* point order, with distinguishable colours.
C9_Witness ==
    /\ ad_pc = "done"
    /\ ad_params.n_points > MAX_POINTS_IN_RESPONSE
    /\ ad_response.point_cloud.count = MAX_POINTS_IN_RESPONSE
    /\ ad_indices[1] > ad_indices[2]
    /\ ad_params.colors_rgb[1] # ad_params.colors_rgb[2]


\* ------------------------------------------------------------------------
\* Properties of the endpoints (Spec)
\* ------------------------------------------------------------------------

Running(r) == req[r].pc \notin {"start", "done"}

Returned(r) == req[r].pc = "done"

Succeeded(r) == Returned(r) /\ req[r].outcome.ok

\* temporary files under /tmp last written by request r
TempFilesOf(r) == {q \in DOMAIN tmp : tmp[q].owner = r}

\* C1 (as claimed): whatever path a request takes, once it has returned or
\* raised no temporary file it created (input video, local PLY) is left
\* under /tmp.
C1_TempFilesRemoved ==
    \A r \in Requests : Returned(r) => TempFilesOf(r) = {}

\* C2 (as claimed): two requests running at the same time, same case_id or
\* not, have written no temporary path in common.
C2_TempPathsDistinct ==
    \A r1, r2 \in Requests :
        (r1 # r2 /\ Running(r1) /\ Running(r2)) =>
            req[r1].written \cap req[r2].written = {}

\* C3 (as claimed): every file a reader can fetch from the store holds its
\* header and all its records, download_ply never serves less, and a
\* request whose encode failed has no file in the store.
C3_NoPartialFileVisible ==
    /\ \A f \in DOMAIN volume_committed : Complete(volume_committed[f])
    /\ (served # None /\ served.status_code = 200) => Complete(served.file)
    /\ \A r \in Requests :
          (Returned(r) /\ req[r].outcome = ErrorResponse(500, "Failed to write PLY")) =>
              PlyFilename(req[r].ply_id.str) \notin DOMAIN volume_committed

\* the model's result for r exposes none of the position aliases
NoPositions(r) ==
    /\ req[r].predictions # None
    /\ \A i \in 1..Len(POSITION_KEYS) :
          POSITION_KEYS[i] \notin DOMAIN req[r].predictions.fields

\* C4: a request whose prediction result exposes no position alias ends
\* with a 500 error; it never reaches the encode, store or response
\* stages, takes no PLY identifier, writes no PLY file and carries no key.
C4_MissingPositionsFailFast ==
    \A r \in Requests :
        NoPositions(r) =>
            /\ req[r].pc \in {"extract", "done"}
            /\ Returned(r) => (~req[r].outcome.ok /\ req[r].outcome.status = 500)
            /\ req[r].ply_id = None
            /\ req[r].gaussian_asset_key = None
            /\ \A q \in TempFilesOf(r) : "file" \notin DOMAIN tmp[q]

\* C4 witness: a request whose result had no positions has returned 500.
C4_Witness ==
    \E r \in Requests :
        /\ NoPositions(r)
        /\ Returned(r)
        /\ req[r].outcome.status = 500

\* C10: a request whose save to the volume failed (makedirs, copy or
\* commit) returns a success response with a null gaussian_asset_key; and
\* a success response with a key names a complete file in the committed
\* volume, which download_ply serves.
C10_StorageFailureDegrades ==
    \A r \in Requests :
        /\ (Returned(r) /\ req[r].storage_failed) =>
              /\ req[r].outcome.ok
              /\ req[r].outcome.status = 200
              /\ req[r].outcome.gaussian_asset_key = None
        /\ (Succeeded(r) /\ req[r].outcome.gaussian_asset_key # None) =>
              LET filename == req[r].outcome.gaussian_asset_key.str
              IN  /\ filename = PlyFilename(req[r].ply_id.str)
                  /\ filename \in DOMAIN volume_committed
                  /\ Complete(volume_committed[filename])
                  /\ Download(filename).status_code = 200

\* C10 witness: one request returned success with a null key after its
\* save failed, the other returned success with a key that is served.
C10_Witness ==
    \E r1, r2 \in Requests :
        /\ Succeeded(r1) /\ req[r1].storage_failed
        /\ req[r1].outcome.gaussian_asset_key = None
        /\ Succeeded(r2) /\ req[r2].outcome.gaussian_asset_key # None
        /\ served # None /\ served.status_code = 200
        /\ Str(served.filename) = req[r2].outcome.gaussian_asset_key

\* the request's fields as the caller sent them
HasCaseId(item) == item.case_id # None /\ item.case_id.str # ""

HasVideo(item) == item.video_base64 # None /\ item.video_base64.len > 0

HasImages(item) == item.scan_asset_keys # None /\ Len(item.scan_asset_keys.list) > 0

\* r was answered by step 1 with `detail`: nothing written, no model call
Rejected(r, detail) ==
    /\ Returned(r)
    /\ req[r].outcome = ErrorResponse(400, detail)
    /\ req[r].written = {}
    /\ TempFilesOf(r) = {}
    /\ req[r].pil_images = <<>>
    /\ req[r].predictions = None

\* C11: a request without a non-empty case_id is answered 400; otherwise
\* a non-empty video_base64 selects the video path, scan_asset_keys or
\* not (the images are never decoded, the video is written and read, and
\* input_type is "video"); otherwise a non-empty scan_asset_keys selects
\* the image path (input_type "images"); otherwise the answer is 400.
\* Before the decision no file is written and the model is not called.
C11_ValidationDecision ==
    \A r \in Requests :
        /\ req[r].pc = "start" => (req[r].written = {} /\ req[r].predictions = None)
        /\ req[r].item # None =>
              LET item == req[r].item
              IN  IF ~HasCaseId(item)
                  THEN Rejected(r, "case_id is required")
                  ELSE IF HasVideo(item)
                  THEN /\ req[r].use_video
                       /\ req[r].pc # "decode_images"
                       /\ req[r].pc \notin {"start", "write_video", "done"} =>
                             VideoPath(item.case_id.str) \in req[r].written
                       /\ Succeeded(r) =>
                             /\ req[r].outcome.processing_stats.input_type = "video"
                             /\ req[r].outcome.processing_stats.input_images =
                                   Len(req[r].pil_images)
                  ELSE IF HasImages(item)
                  THEN /\ ~req[r].use_video
                       /\ req[r].pc \notin {"write_video", "read_video", "remove_video"}
                       /\ req[r].written \cap {VideoPath(item.case_id.str)} = {}
                       /\ Succeeded(r) =>
                             /\ req[r].outcome.processing_stats.input_type = "images"
                             /\ req[r].outcome.processing_stats.input_images =
                                   Len(item.scan_asset_keys.list)
                  ELSE Rejected(r, "Either video_base64 or scan_asset_keys is required")

\* C11 witness: one request carrying both a video and images succeeded
\* as a video request, the other had an empty case_id and was answered 400.
C11_Witness ==
    \E r1, r2 \in Requests :
        /\ req[r1].item # None /\ HasCaseId(req[r1].item)
        /\ HasVideo(req[r1].item) /\ HasImages(req[r1].item)
        /\ Succeeded(r1)
        /\ req[r1].outcome.processing_stats.input_type = "video"
        /\ req[r2].item # None /\ req[r2].item.case_id = Str("")
        /\ Rejected(r2, "case_id is required")

\* the model's result for r holds positions for at least one point and
\* none of the optional fields
PositionsOnly(r) ==
    /\ req[r].predictions # None
    /\ _extract_tensor(req[r].predictions, POSITION_KEYS) # None
    /\ Len(_extract_tensor(req[r].predictions, POSITION_KEYS).data) >= 3
    /\ Len(_extract_tensor(req[r].predictions, POSITION_KEYS).data) % 3 = 0
    /\ \A keys \in {OPACITY_KEYS, SCALE_KEYS, ROTATION_KEYS, SH_KEYS} :
          _extract_tensor(req[r].predictions, keys) = None

\* the value of property `name` in record i of a PLY file
PlyField(file, i, name) ==
    file.body[i][CHOOSE j \in 1..Len(file.header.properties) :
                    file.header.properties[j] = name]

\* C12 (as claimed): for a prediction result with positions for N >= 1
\* points and no optional field, step 4 does not fail, and the file
\* published for the request is what write_gaussian_ply writes for the
\* canonical arrays: N records, each with opacity 0.8, whether or not the
\* prediction object or the model has a save_ply.
C12_PublishedFileIsEncoderOutput ==
    \A r \in Requests :
        PositionsOnly(r) =>
            /\ Returned(r) =>
                  req[r].outcome # ErrorResponse(500, "Failed to extract Gaussian parameters")
            /\ (Succeeded(r) /\ req[r].outcome.gaussian_asset_key # None) =>
                  LET file == volume_committed[req[r].outcome.gaussian_asset_key.str]
                      N == Len(_extract_tensor(req[r].predictions, POSITION_KEYS).data) \div 3
                  IN  /\ file = ManualPly(req[r].params)
                      /\ file.header.vertex = N
                      /\ Len(file.body) = N
                      /\ \E j \in 1..Len(file.header.properties) :
                            file.header.properties[j] = "opacity"
                      /\ \A i \in 1..N : PlyField(file, i, "opacity") = OPACITY_DEFAULT

\* ------------------------------------------------------------------------
\* Properties of the frame sampler (SamplerSpec)
\* ------------------------------------------------------------------------

\* round(h / 100) for h in hundredths, halves to the even neighbour
Round(h) ==
    LET q == h \div 100
        rest == h % 100
    IN  IF rest > 50 THEN q + 1
        ELSE IF rest < 50 THEN q
        ELSE IF q % 2 = 0 THEN q ELSE q + 1

\* the stride has been computed
SmStrideKnown == sm_pc \in {"read", "check", "done"} /\ sm_video.opens

\* C13 (as claimed): the stride is max(1, round(source_fps / 1)), with
\* source_fps 30 when the decoder reports none; 29.97 gives 30, 0.6 gives 1.
C13_StrideIsRounded ==
    SmStrideKnown =>
        LET source_fps == IF sm_video.fps = 0 THEN 3000 ELSE sm_video.fps
            rounded == Round(source_fps)
        IN  sm_frame_interval = IF rounded < 1 THEN 1 ELSE rounded

\* the loop has ended
SmSampled == sm_pc \in {"check", "done"} /\ sm_video.opens

\* C14: for a video of T decoded frames and stride s the sampler emits
\* the frames 0, s, 2s, ... below T in that order, cut to the first 100:
\* at no point of the loop more than 100 frames, only multiples of s,
\* strictly increasing; and emitting none ends the request with 400.
C14_EveryStrideThFrameCapped ==
    LET s == sm_frame_interval
        T == sm_video.frames
        emitted == sm_pil_images
        due == (T + s - 1) \div s
    IN  /\ Len(emitted) <= 100
        /\ sm_pc \in {"read", "check", "done"} =>
              /\ \A j \in 1..Len(emitted) : emitted[j] % s = 0 /\ emitted[j] < T
              /\ \A j \in 1..(Len(emitted) - 1) : emitted[j] < emitted[j + 1]
        /\ SmSampled =>
              /\ Len(emitted) = IF due < 100 THEN due ELSE 100
              /\ \A j \in 1..Len(emitted) : emitted[j] = (j - 1) * s
        /\ (sm_pc = "done" /\ sm_video.opens) =>
              IF Len(emitted) = 0
              THEN ~sm_outcome.ok /\ sm_outcome.status = 400
              ELSE sm_outcome = None

\* C14 witness: a video at stride 2 with more than 200 frames was sampled:
\* 100 frames emitted, the last one index 198, later multiples dropped.
C14_Witness ==
    /\ sm_pc = "done"
    /\ sm_frame_interval = 2
    /\ sm_video.frames > 200
    /\ Len(sm_pil_images) = 100
    /\ sm_pil_images[100] = 198
    /\ sm_outcome = None

=============================================================================
